---------------------------- MODULE Spec2Model ----------------------------
(***************************************************************************)
(* Contact form of the portfolio page (src/javascript.js): field           *)
(* validation, the submit handler and its promise chain, the status        *)
(* region with its auto-hide timer, and the submit button.                 *)
(*                                                                         *)
(* Strings the code inspects character by character (field values) are     *)
(* sequences of one-character strings; strings the code only compares or   *)
(* displays (messages, labels) are TLA+ strings.                           *)
(*                                                                         *)
(* The page is taken to hold every element the script looks up: the form,  *)
(* its three fields with their error elements, the status region and the   *)
(* submit button.                                                          *)
(*                                                                         *)
(* All handlers run on one event loop: every action below is one task (a   *)
(* DOM event handler, a timer callback) or one settled promise together    *)
(* with the chain of promise reactions that run before the next task.      *)
(***************************************************************************)
EXTENDS Integers, Sequences, FiniteSets, TLC

\* ------------------------------------------------------------------ bounds

\* Number of submit events handled in one run of the model.
MaxAttempts == 2

\* Longest values tried for each field when validateField is checked alone.
MaxNameLen == 3
MaxEmailLen == 5
MaxMessageLen == 11

\* The scrolling page: number of sections, of observed elements, and the
\* largest offsetTop and scroll offset, in steps of 100.
MaxSections == 2
MaxElements == 2
MaxTopSteps == 4
MaxScrollSteps == 4

\* --------------------------------------------------------------- constants

MinNameLength == 2
MinMessageLength == 10
NavOffset == 200

Fields == {"name", "email", "message"}

\* ------------------------------------------------------ character classes

Lower == {"a","b","c","d","e","f","g","h","i","j","k","l","m",
          "n","o","p","q","r","s","t","u","v","w","x","y","z"}
Upper == {"A","B","C","D","E","F","G","H","I","J","K","L","M",
          "N","O","P","Q","R","S","T","U","V","W","X","Y","Z"}

\* \s of a JavaScript regular expression, and the characters trim() strips.
IsSpace(c) == c \in {" ", "\t", "\n", "\r"}

\* One character of the class [a-zA-Z\s'-].
IsNameChar(c) == c \in Lower \/ c \in Upper \/ IsSpace(c) \/ c = "'" \/ c = "-"

\* One character of the class [^\s@].
IsEmailChar(c) == ~IsSpace(c) /\ c # "@"

\* Faulty variant: the value is taken as typed.
TrimNothing(s) == s

\* String.prototype.trim
RECURSIVE TrimLeft(_)
TrimLeft(s) == IF s # <<>> /\ IsSpace(Head(s)) THEN TrimLeft(Tail(s)) ELSE s

RECURSIVE TrimRight(_)
TrimRight(s) ==
  IF s # <<>> /\ IsSpace(s[Len(s)]) THEN TrimRight(SubSeq(s, 1, Len(s) - 1)) ELSE s

Trim(s) == TrimRight(TrimLeft(s))

\* /^[a-zA-Z\s'-]+$/.test(value)
NameRegexTest(s) == Len(s) >= 1 /\ \A i \in 1..Len(s) : IsNameChar(s[i])

\* /^[^\s@]+@[^\s@]+\.[^\s@]+$/.test(value)
EmailRegexTest(s) ==
  \E i \in 1..Len(s) : \E j \in 1..Len(s) :
    /\ 1 < i /\ i + 1 < j /\ j < Len(s)
    /\ s[i] = "@" /\ s[j] = "."
    /\ \A k \in 1..Len(s) : (k # i /\ k # j) => IsEmailChar(s[k])

\* ---------------------------------------------------------------- messages
\* The texts of the script, without the pictograph that starts some of them.

NameRequiredMsg == "Name is required"
NameTooShortMsg == "Name must be at least 2 characters"
NameCharsMsg == "Name can only contain letters, spaces, hyphens, and apostrophes"
EmailRequiredMsg == "Email is required"
EmailInvalidMsg == "Please enter a valid email address"
MessageRequiredMsg == "Message is required"
MessageTooShortMsg == "Message must be at least 10 characters"

ConfigErrorMsg == "Configuration Error: Update your Formspree form ID in the HTML. Visit https://formspree.io/create/"
ValidationErrorMsg == "Please fix the errors above and try again."
SuccessMsg == "Message sent successfully! I'll get back to you soon."
NotFoundMsg == "Formspree form not found. Update your form ID: https://formspree.io/create/"
RejectedMsg == "Formspree validation error. Check form field names in HTML."
NetworkErrorMsg == "Network error. Check your internet or CORS settings."
FailedToSendMsg == "Failed to send message. Try again or email: narvariyasourabh447@gmail.com"

SendingLabel == "Sending..."

\* ------------------------------------------------------------- environment

\* The label the page gives the submit button (the markup is not part of the
\* script; any label different from SendingLabel behaves the same).
InitialLabel == "Send Message"

\* form.action as the list of its parts: the relay's base URL and the form id.
FormActions == { <<"https://formspree.io/f/", "YOUR_FORMSPREE_ID">>,
                 <<"https://formspree.io/f/", "xyzqwvba">>,
                 <<"https://formspree.io/f/", "abcde12345">> }

\* What the user can type into each field.
NameInputs == { <<>>, <<" ", "A">>, <<"J","a","n","e"," ","D","o","e">> }
EmailInputs == { <<>>, <<"a","@","b">>, <<"a","@","b",".","c","o","m">> }
MessageInputs == { <<>>, <<"H","e","l","l","o"," ","t","h","e","r","e","!">> }

Inputs(f) == CASE f = "name" -> NameInputs
               [] f = "email" -> EmailInputs
               [] f = "message" -> MessageInputs

\* HTTP statuses the relay answers with.
Statuses == {200, 404, 422, 500}

\* error.message of a rejected fetch(): the text differs between browsers.
TransportErrors == {"Failed to fetch", "Load failed"}

\* error.message of a rejected response.json(): the body is not JSON (an empty
\* body, an HTML page).
JsonErrors == {"Unexpected end of JSON input",
               "Unexpected token < in JSON at position 0"}

\* ----------------------------------------------------------- validateField

\* Faulty variant: a message of exactly the minimal length is refused.
validateFieldMessageOffByOne(id, raw) ==
  LET value == Trim(raw)
      ok == [isValid |-> TRUE, errorMsg |-> ""]
      bad(msg) == [isValid |-> FALSE, errorMsg |-> msg]
  IN CASE id = "name" ->
            IF Len(value) = 0 THEN bad(NameRequiredMsg)
            ELSE IF Len(value) < MinNameLength THEN bad(NameTooShortMsg)
            ELSE IF ~NameRegexTest(value) THEN bad(NameCharsMsg)
            ELSE ok
       [] id = "email" ->
            IF Len(value) = 0 THEN bad(EmailRequiredMsg)
            ELSE IF ~EmailRegexTest(value) THEN bad(EmailInvalidMsg)
            ELSE ok
       [] id = "message" ->
            IF Len(value) = 0 THEN bad(MessageRequiredMsg)
            ELSE IF Len(value) <= MinMessageLength THEN bad(MessageTooShortMsg)
            ELSE ok

\* Faulty variant: the name's characters are tested before its length.
validateFieldCharsBeforeLength(id, raw) ==
  LET value == Trim(raw)
      ok == [isValid |-> TRUE, errorMsg |-> ""]
      bad(msg) == [isValid |-> FALSE, errorMsg |-> msg]
  IN CASE id = "name" ->
            IF Len(value) = 0 THEN bad(NameRequiredMsg)
            ELSE IF ~NameRegexTest(value) THEN bad(NameCharsMsg)
            ELSE IF Len(value) < MinNameLength THEN bad(NameTooShortMsg)
            ELSE ok
       [] id = "email" ->
            IF Len(value) = 0 THEN bad(EmailRequiredMsg)
            ELSE IF ~EmailRegexTest(value) THEN bad(EmailInvalidMsg)
            ELSE ok
       [] id = "message" ->
            IF Len(value) = 0 THEN bad(MessageRequiredMsg)
            ELSE IF Len(value) < MinMessageLength THEN bad(MessageTooShortMsg)
            ELSE ok

\* The isValid / errorMsg pair validateField computes for one field.
validateField(id, raw) ==
  LET value == Trim(raw)
      ok == [isValid |-> TRUE, errorMsg |-> ""]
      bad(msg) == [isValid |-> FALSE, errorMsg |-> msg]
  IN CASE id = "name" ->
            IF Len(value) = 0 THEN bad(NameRequiredMsg)
            ELSE IF Len(value) < MinNameLength THEN bad(NameTooShortMsg)
            ELSE IF ~NameRegexTest(value) THEN bad(NameCharsMsg)
            ELSE ok
       [] id = "email" ->
            IF Len(value) = 0 THEN bad(EmailRequiredMsg)
            ELSE IF ~EmailRegexTest(value) THEN bad(EmailInvalidMsg)
            ELSE ok
       [] id = "message" ->
            IF Len(value) = 0 THEN bad(MessageRequiredMsg)
            ELSE IF Len(value) < MinMessageLength THEN bad(MessageTooShortMsg)
            ELSE ok

\* -------------------------------------------------------------------- state

VARIABLES
  formAction,   \* form.action, fixed by the page
  value,        \* value[f]: the text in field f
  fieldError,   \* fieldError[f]: field f carries the class 'error'
  errorText,    \* errorText[f]: textContent of the element f + '-error'
  statusDiv,    \* #form-status: textContent, type class, class 'show'
  hideTimers,   \* number of pending setTimeout(..., 4000) callbacks
  submitBtn,    \* #submit-btn: disabled, textContent
  attempts      \* one record per submit event handled, in order

VARIABLES
  sectionTop,   \* sectionTop[i]: offsetTop of the i-th section in document order
  pageYOffset,  \* window.pageYOffset
  navColor,     \* navColor[l]: style.color of nav link l
  revealStyle,  \* revealStyle[e]: opacity and transform of observed element e
  observed      \* the elements the IntersectionObserver observes

formVars == <<formAction, value, fieldError, errorText, statusDiv, hideTimers,
              submitBtn, attempts>>
scrollVars == <<sectionTop, pageYOffset, navColor, revealStyle, observed>>

vars == <<formAction, value, fieldError, errorText, statusDiv, hideTimers,
          submitBtn, attempts, scrollVars>>

\* The page as one record, so that the handlers below are functions from page
\* to page.
Page == [value |-> value, fieldError |-> fieldError, errorText |-> errorText,
         statusDiv |-> statusDiv, hideTimers |-> hideTimers,
         submitBtn |-> submitBtn, attempts |-> attempts]

Becomes(d) ==
  /\ value' = d.value
  /\ fieldError' = d.fieldError
  /\ errorText' = d.errorText
  /\ statusDiv' = d.statusDiv
  /\ hideTimers' = d.hideTimers
  /\ submitBtn' = d.submitBtn
  /\ attempts' = d.attempts
  /\ UNCHANGED <<formAction, scrollVars>>

\* The record of one invocation of handleFormSubmit: where its promise chain
\* stands (pc), its locals (valid, originalText), the response its request
\* got (0: none yet, -1: fetch rejected, with the rejection's error.message
\* in error) and what it has done so far: the
\* number of fetch() calls, the status messages it showed, the number of
\* form.reset() calls, and the state it left the button in each time its
\* .finally callback ran.
NewAttempt ==
  [pc |-> "handler", validated |-> FALSE,
   valid |-> [f \in Fields |-> FALSE],
   originalText |-> "", response |-> 0, error |-> "",
   fetches |-> 0, messages |-> <<>>, resets |-> 0, restored |-> <<>>]

\* ---------------------------------------------------------------- handlers

\* validateField's update of the field's class and error element.
validateFieldUI(d, f) ==
  LET r == validateField(f, d.value[f])
  IN [d EXCEPT !.fieldError[f] = ~r.isValid, !.errorText[f] = r.errorMsg]

\* Faulty variant: the mark is removed and the message stays.
clearFieldErrorMarkOnly(d, f) ==
  [d EXCEPT !.fieldError[f] = FALSE]

clearFieldError(d, f) ==
  [d EXCEPT !.fieldError[f] = FALSE, !.errorText[f] = ""]

showFormStatus(d, message, type) ==
  [d EXCEPT !.statusDiv = [textContent |-> message, type |-> type, show |-> TRUE],
            !.hideTimers = IF type = "success" THEN @ + 1 ELSE @]

\* showFormStatus called by attempt a (the attempt's record keeps the message).
ShowBy(d, a, message, type) ==
  LET e == showFormStatus(d, message, type)
  IN [e EXCEPT !.attempts[a].messages = Append(@, message)]

\* String.prototype.includes on form.action, for a part of the URL.
Includes(action, part) == \E i \in 1..Len(action) : action[i] = part

\* Faulty variant: only the first placeholder id is recognised.
IsPlaceholderFirstIdOnly(action) == Includes(action, "YOUR_FORMSPREE_ID")

IsPlaceholder(action) ==
  Includes(action, "YOUR_FORMSPREE_ID") \/ Includes(action, "xyzqwvba")

\* Faulty variant: the message field's result is left out of the test.
AllValidWithoutMessage(isNameValid, isEmailValid, isMessageValid) ==
  ~(~isNameValid \/ ~isEmailValid)

\* The negation of  !isNameValid || !isEmailValid || !isMessageValid
AllValid(isNameValid, isEmailValid, isMessageValid) ==
  ~(~isNameValid \/ ~isEmailValid \/ ~isMessageValid)

\* fetch(form.action, ...) called by attempt a.
Fetch(d, a) ==
  [d EXCEPT !.attempts[a].fetches = @ + 1, !.attempts[a].pc = "fetching"]

\* Faulty variant: validation stops at the first invalid field.
handleFormSubmitShortCircuit(d0, action, a) ==
  LET d == [d0 EXCEPT !.attempts = Append(@, NewAttempt)]
  IN IF IsPlaceholder(action)
     THEN [ShowBy(d, a, ConfigErrorMsg, "error") EXCEPT !.attempts[a].pc = "returned"]
     ELSE
       LET isValid == [f \in Fields |-> validateField(f, d.value[f]).isValid]
           d1 == validateFieldUI(d, "name")
           d2 == IF isValid["name"] THEN validateFieldUI(d1, "email") ELSE d1
           d3 == IF isValid["name"] /\ isValid["email"]
                 THEN validateFieldUI(d2, "message") ELSE d2
           d4 == [d3 EXCEPT !.attempts[a].validated = TRUE,
                            !.attempts[a].valid = isValid]
       IN IF ~AllValid(isValid["name"], isValid["email"], isValid["message"])
          THEN [ShowBy(d4, a, ValidationErrorMsg, "error")
                  EXCEPT !.attempts[a].pc = "returned"]
          ELSE
            LET d5 == [d4 EXCEPT !.attempts[a].originalText = d4.submitBtn.textContent,
                                 !.submitBtn = [disabled |-> TRUE,
                                                textContent |-> SendingLabel]]
            IN Fetch(d5, a)

\* The synchronous part of handleFormSubmit, as attempt number a.
handleFormSubmit(d0, action, a) ==
  LET d == [d0 EXCEPT !.attempts = Append(@, NewAttempt)]
  IN IF IsPlaceholder(action)
     THEN [ShowBy(d, a, ConfigErrorMsg, "error") EXCEPT !.attempts[a].pc = "returned"]
     ELSE
       LET d1 == validateFieldUI(d, "name")
           d2 == validateFieldUI(d1, "email")
           d3 == validateFieldUI(d2, "message")
           isValid == [f \in Fields |-> validateField(f, d.value[f]).isValid]
           d4 == [d3 EXCEPT !.attempts[a].validated = TRUE,
                            !.attempts[a].valid = isValid]
       IN IF ~AllValid(isValid["name"], isValid["email"], isValid["message"])
          THEN [ShowBy(d4, a, ValidationErrorMsg, "error")
                  EXCEPT !.attempts[a].pc = "returned"]
          ELSE
            LET d5 == [d4 EXCEPT !.attempts[a].originalText = d4.submitBtn.textContent,
                                 !.submitBtn = [disabled |-> TRUE,
                                                textContent |-> SendingLabel]]
            IN Fetch(d5, a)

\* response.ok
ResponseOk(status) == 200 <= status /\ status <= 299

\* The message of the Error the .then callback throws for a status not ok.
ThrownMessage(status) ==
  IF status = 404 THEN "FORMSPREE_NOT_FOUND"
  ELSE IF status = 422 THEN "FORMSPREE_VALIDATION_ERROR"
  ELSE "FORMSPREE_ERROR_" \o ToString(status)

\* Faulty variant: no error text is taken for a transport failure.
IncludesFailedToFetchNever(message) == FALSE

\* error.message.includes('Failed to fetch'), over the messages of the model.
IncludesFailedToFetch(message) == message = "Failed to fetch"

\* form.reset(): every field back to its default value (the empty string).
formReset(d) == [d EXCEPT !.value = [f \in Fields |-> <<>>]]

\* The .then callback on a response that is ok, up to  return response.json().
thenCallbackOk(d, a) ==
  LET d1 == ShowBy(d, a, SuccessMsg, "success")
      d2 == formReset(d1)
  IN [d2 EXCEPT !.attempts[a].resets = @ + 1, !.attempts[a].pc = "json"]

\* The status text the .catch callback shows for an error message.
CatchMessage(message) ==
  IF message = "FORMSPREE_NOT_FOUND" THEN NotFoundMsg
  ELSE IF message = "FORMSPREE_VALIDATION_ERROR" THEN RejectedMsg
  ELSE IF IncludesFailedToFetch(message) THEN NetworkErrorMsg
  ELSE FailedToSendMsg

\* Faulty variant: the error path clears the form as the success path does.
catchCallbackResetting(d, a, message) ==
  ShowBy(formReset(d), a, CatchMessage(message), "error")

\* Faulty variant: the error path sends the request again.
catchCallbackRetrying(d, a, message) ==
  LET e == ShowBy(d, a, CatchMessage(message), "error")
  IN [e EXCEPT !.attempts[a].fetches = @ + 1]

catchCallback(d, a, message) == ShowBy(d, a, CatchMessage(message), "error")

finallyCallback(d, a) ==
  LET btn == [disabled |-> FALSE, textContent |-> d.attempts[a].originalText]
  IN [d EXCEPT !.submitBtn = btn,
               !.attempts[a].restored = Append(@, btn),
               !.attempts[a].pc = "done"]

\* The promise chain from a fulfilled fetch() to the next suspension.
onFetchFulfilled(d0, a, status) ==
  LET d == [d0 EXCEPT !.attempts[a].response = status]
  IN IF ResponseOk(status)
     THEN thenCallbackOk(d, a)
     ELSE finallyCallback(catchCallback(d, a, ThrownMessage(status)), a)

\* The promise chain from a rejected fetch(): .then is skipped.
onFetchRejected(d0, a, message) ==
  LET d == [d0 EXCEPT !.attempts[a].response = -1, !.attempts[a].error = message]
  IN finallyCallback(catchCallback(d, a, message), a)

\* response.json() fulfilled: .catch is skipped.
onJsonFulfilled(d, a) == finallyCallback(d, a)

\* response.json() rejected.
onJsonRejected(d, a, message) == finallyCallback(catchCallback(d, a, message), a)

\* The auto-hide timer callback: statusDiv.classList.remove('show').
hideStatus(d) ==
  [d EXCEPT !.statusDiv.show = FALSE, !.hideTimers = @ - 1]

\* ----------------------------------------------------- scroll and reveal

\* Sections in document order; section i has the id i, and currentSection = 0
\* stands for the empty string. Nav link l points to section l; link 0 points
\* to no section of the page.
Sections == 1..MaxSections
NavLinks == 0..MaxSections
Elements == 1..MaxElements
SectionTops == {100 * k : k \in 0..MaxTopSteps}
ScrollOffsets == {100 * k : k \in 0..MaxScrollSteps}

HiddenStyle == [opacity |-> "0", transform |-> "translateY(20px)"]
VisibleStyle == [opacity |-> "1", transform |-> "translateY(0)"]

updateActiveNav(sectionId) ==
  [l \in NavLinks |-> IF l = sectionId THEN "var(--accent)" ELSE "inherit"]

\* Faulty variant: the scan keeps the first section that matches.
RECURSIVE CurrentSectionFirstMatch(_, _, _, _)
CurrentSectionFirstMatch(tops, y, i, currentSection) ==
  IF i > MaxSections THEN currentSection
  ELSE CurrentSectionFirstMatch(tops, y, i + 1,
         IF y >= tops[i] - NavOffset /\ currentSection = 0 THEN i ELSE currentSection)

\* sections.forEach of the scroll listener, from section i on.
RECURSIVE CurrentSection(_, _, _, _)
CurrentSection(tops, y, i, currentSection) ==
  IF i > MaxSections THEN currentSection
  ELSE CurrentSection(tops, y, i + 1,
         IF y >= tops[i] - NavOffset THEN i ELSE currentSection)

\* The scroll listener: the nav colors after a scroll event at offset y.
scrollListener(colors, tops, y) ==
  LET currentSection == CurrentSection(tops, y, 1, 0)
  IN IF currentSection # 0 THEN updateActiveNav(currentSection) ELSE colors

\* Faulty variant: a revealed element stays observed.
observerCallbackKeepsObserving(st, entries) ==
  [style |-> [e \in Elements |->
                IF e \in DOMAIN entries /\ entries[e] THEN VisibleStyle
                ELSE st.style[e]],
   observed |-> st.observed]

\* The IntersectionObserver callback on entries, a map from the targets
\* reported to their isIntersecting.
observerCallback(st, entries) ==
  [style |-> [e \in Elements |->
                IF e \in DOMAIN entries /\ entries[e] THEN VisibleStyle
                ELSE st.style[e]],
   observed |-> st.observed \ {e \in DOMAIN entries : entries[e]}]

\* The page after initializePortfolio, with the sections laid out at tops.
PageLoaded(tops) ==
  /\ sectionTop = tops
  /\ pageYOffset = 0
  /\ navColor = [l \in NavLinks |-> ""]
  /\ revealStyle = [e \in Elements |-> HiddenStyle]
  /\ observed = Elements

\* ------------------------------------------------------------------ actions

\* The form's specifications leave the page unscrolled.
Init ==
  /\ PageLoaded([i \in Sections |-> 0])
  /\ formAction \in FormActions
  /\ value = [f \in Fields |-> <<>>]
  /\ fieldError = [f \in Fields |-> FALSE]
  /\ errorText = [f \in Fields |-> ""]
  /\ statusDiv = [textContent |-> "", type |-> "", show |-> FALSE]
  /\ hideTimers = 0
  /\ submitBtn = [disabled |-> FALSE, textContent |-> InitialLabel]
  /\ attempts = <<>>

\* The user edits a field.
Input ==
  \E f \in Fields : \E v \in Inputs(f) :
    /\ v # value[f]
    /\ value' = [value EXCEPT ![f] = v]
    /\ UNCHANGED <<formAction, fieldError, errorText, statusDiv, hideTimers,
                   submitBtn, attempts, scrollVars>>

\* A field loses the focus: the blur listener is validateField.
Blur == \E f \in Fields : Becomes(validateFieldUI(Page, f))

\* A field gains the focus.
Focus == \E f \in Fields : Becomes(clearFieldError(Page, f))

\* A submit event on the form. The listener does not look at the button, so
\* the event is taken whenever it is dispatched.
Submit ==
  /\ Len(attempts) < MaxAttempts
  /\ Becomes(handleFormSubmit(Page, formAction, Len(attempts) + 1))

FetchFulfilled ==
  \E a \in DOMAIN attempts : \E status \in Statuses :
    /\ attempts[a].pc = "fetching"
    /\ Becomes(onFetchFulfilled(Page, a, status))

FetchRejected ==
  \E a \in DOMAIN attempts : \E message \in TransportErrors :
    /\ attempts[a].pc = "fetching"
    /\ Becomes(onFetchRejected(Page, a, message))

JsonFulfilled ==
  \E a \in DOMAIN attempts :
    /\ attempts[a].pc = "json"
    /\ Becomes(onJsonFulfilled(Page, a))

JsonRejected ==
  \E a \in DOMAIN attempts : \E message \in JsonErrors :
    /\ attempts[a].pc = "json"
    /\ Becomes(onJsonRejected(Page, a, message))

TimerFires ==
  /\ hideTimers > 0
  /\ Becomes(hideStatus(Page))

\* The submission flow: edits, submit events, the settling of requests and
\* the auto-hide timer.
Next ==
  \/ Input
  \/ Submit
  \/ FetchFulfilled
  \/ FetchRejected
  \/ JsonFulfilled
  \/ JsonRejected
  \/ TimerFires

Spec == Init /\ [][Next]_vars

\* The field-error display: edits, blur, focus and submit events. The steps
\* left out (requests settling, the timer) change no field's class or error
\* element, and the one value they write, the empty value of form.reset(),
\* is an edit of Input.
FieldNext ==
  \/ Input
  \/ Blur
  \/ Focus
  \/ Submit

FieldSpec == Init /\ [][FieldNext]_vars

\* validateField alone: one field holds any value over a small alphabet up to
\* a maximal length, the other two hold valid values; the field is validated
\* by a blur event or, with the others, by a submit event. No request settles
\* and nobody edits, so the fields keep their values.
Strings(alphabet, n) == UNION { [1..k -> alphabet] : k \in 0..n }

NameChars == {"a", "Z", " ", "'", "-", "1"}
EmailChars == {"a", "@", ".", " "}
MessageChars == {"x", " "}

TestInputs(f) == CASE f = "name" -> Strings(NameChars, MaxNameLen)
                   [] f = "email" -> Strings(EmailChars, MaxEmailLen)
                   [] f = "message" -> Strings(MessageChars, MaxMessageLen)

ValidInput(f) == CASE f = "name" -> <<"J","a","n","e"," ","D","o","e">>
                   [] f = "email" -> <<"a","@","b",".","c","o","m">>
                   [] f = "message" -> <<"H","e","l","l","o"," ","t","h","e","r","e","!">>

ValidateInit ==
  /\ PageLoaded([i \in Sections |-> 0])
  /\ formAction = <<"https://formspree.io/f/", "abcde12345">>
  /\ \E f \in Fields : \E v \in TestInputs(f) :
       value = [g \in Fields |-> IF g = f THEN v ELSE ValidInput(g)]
  /\ fieldError = [f \in Fields |-> FALSE]
  /\ errorText = [f \in Fields |-> ""]
  /\ statusDiv = [textContent |-> "", type |-> "", show |-> FALSE]
  /\ hideTimers = 0
  /\ submitBtn = [disabled |-> FALSE, textContent |-> InitialLabel]
  /\ attempts = <<>>

ValidateNext ==
  \/ Blur
  \/ Submit

ValidateSpec == ValidateInit /\ [][ValidateNext]_vars

\* The scrolling page: scroll events, clicks on nav links and intersection
\* reports, with the form left alone.
PageInit ==
  /\ \E tops \in [Sections -> SectionTops] : PageLoaded(tops)
  /\ formAction = <<"https://formspree.io/f/", "abcde12345">>
  /\ value = [f \in Fields |-> <<>>]
  /\ fieldError = [f \in Fields |-> FALSE]
  /\ errorText = [f \in Fields |-> ""]
  /\ statusDiv = [textContent |-> "", type |-> "", show |-> FALSE]
  /\ hideTimers = 0
  /\ submitBtn = [disabled |-> FALSE, textContent |-> InitialLabel]
  /\ attempts = <<>>

\* A scroll event: the offset has changed and the listener runs.
Scroll ==
  \E y \in ScrollOffsets :
    /\ y # pageYOffset
    /\ pageYOffset' = y
    /\ navColor' = scrollListener(navColor, sectionTop, y)
    /\ UNCHANGED <<formVars, sectionTop, revealStyle, observed>>

\* A click on a nav link with a local anchor whose target exists; the smooth
\* scroll it starts arrives as later scroll events.
NavClick ==
  \E l \in Sections :
    /\ navColor' = updateActiveNav(l)
    /\ UNCHANGED <<formVars, sectionTop, pageYOffset, revealStyle, observed>>

EntrySets == UNION { [S -> BOOLEAN] : S \in SUBSET Elements \ {{}} }

Intersect(entries) ==
  /\ DOMAIN entries \subseteq observed
  /\ LET st == observerCallback([style |-> revealStyle, observed |-> observed], entries)
     IN revealStyle' = st.style /\ observed' = st.observed
  /\ UNCHANGED <<formVars, sectionTop, pageYOffset, navColor>>

Intersection == \E entries \in EntrySets : Intersect(entries)

PageNext ==
  \/ Scroll
  \/ NavClick
  \/ Intersection

PageSpec == PageInit /\ [][PageNext]_vars

\* ------------------------------------------------------------- properties

Settled(t) == t.pc \in {"returned", "done"}
InChain(t) == t.pc \in {"fetching", "json", "done"}
PlaceholderIds == {"YOUR_FORMSPREE_ID", "xyzqwvba"}
Configured == \A i \in 1..Len(formAction) : formAction[i] \notin PlaceholderIds
ValidNow(f) == validateField(f, value[f]).isValid

\* C1: an invocation of handleFormSubmit calls fetch only if validateField
\* returned valid for name, email and message in that invocation; if one of
\* the three was invalid it calls no fetch and shows the validation-error
\* status.
C1_FetchOnlyIfAllValid ==
  \A a \in DOMAIN attempts :
    LET t == attempts[a]
    IN /\ t.fetches > 0 => (t.validated /\ \A f \in Fields : t.valid[f])
       /\ (t.validated /\ \E f \in Fields : ~t.valid[f]) =>
            (t.fetches = 0 /\ t.messages = <<ValidationErrorMsg>>)

\* One attempt was blocked by the name alone, another one sent its request.
C1_Witness ==
  /\ \E a \in DOMAIN attempts :
       /\ attempts[a].validated /\ attempts[a].fetches = 0
       /\ attempts[a].valid = [f \in Fields |-> f # "name"]
  /\ \E a \in DOMAIN attempts : attempts[a].fetches = 1

\* C2: at most one request is in flight (issued, and fetch not yet settled).
C2_AtMostOneInFlight ==
  Cardinality({a \in DOMAIN attempts : attempts[a].pc = "fetching"}) <= 1

\* C3: an attempt that put the button into the submitting state has not
\* restored it while its request is pending, and once it is done it has
\* restored it exactly once, to enabled with the label the button had before
\* submitting.
C3_RestoredOnceToOriginal ==
  \A a \in DOMAIN attempts :
    LET t == attempts[a]
    IN /\ t.pc \in {"fetching", "json"} => t.restored = <<>>
       /\ t.pc = "done" =>
            t.restored = << [disabled |-> FALSE, textContent |-> InitialLabel] >>

\* C4: an attempt whose request settled with a 2xx response has, when it is
\* done, reset the form exactly once and left the success message as the
\* last status it showed.
C4_SuccessShownAndResetOnce ==
  \A a \in DOMAIN attempts :
    LET t == attempts[a]
    IN (t.pc = "done" /\ ResponseOk(t.response)) =>
         /\ t.resets = 1
         /\ t.messages # <<>>
         /\ t.messages[Len(t.messages)] = SuccessMsg

\* C5: the status an attempt shows for its settled request depends on the
\* outcome class alone: 404 shows the not-found message, 422 the rejection
\* message, any other status that is not 2xx the server-error message, and
\* all transport failures show one and the same network-failure message.
C5_StatusByOutcomeClass ==
  /\ \A a \in DOMAIN attempts :
       LET t == attempts[a]
       IN (t.pc = "done" /\ t.response > 0 /\ ~ResponseOk(t.response)) =>
            t.messages = << CASE t.response = 404 -> NotFoundMsg
                              [] t.response = 422 -> RejectedMsg
                              [] OTHER -> FailedToSendMsg >>
  /\ \E m \in {NetworkErrorMsg, FailedToSendMsg} :
       \A a \in DOMAIN attempts :
         (attempts[a].pc = "done" /\ attempts[a].response = -1) =>
            attempts[a].messages = <<m>>

\* C6: with a placeholder endpoint every attempt shows the configuration
\* error and returns without validating and without a request, whatever the
\* fields hold.
C6_PlaceholderNeverFetches ==
  ~Configured =>
    \A a \in DOMAIN attempts :
      /\ attempts[a].pc = "returned"
      /\ attempts[a].fetches = 0
      /\ ~attempts[a].validated
      /\ attempts[a].messages = <<ConfigErrorMsg>>

\* The endpoint is the second placeholder, the fields are all valid, and a
\* submit event was handled.
C6_Witness ==
  /\ formAction[2] = "xyzqwvba"
  /\ \A f \in Fields : ValidNow(f)
  /\ Len(attempts) = MaxAttempts
  /\ statusDiv.textContent = ConfigErrorMsg

\* C7: a step changes the fields' contents only if it is an edit by the user
\* or the .then callback of an attempt on a 2xx response; the handler's
\* synchronous part and every other settling of a request leave them alone.
C7_OnlySuccessClearsFields ==
  [][ value' # value =>
        \/ UNCHANGED <<attempts, fieldError, errorText, statusDiv, hideTimers,
                       submitBtn>>
        \/ \E a \in DOMAIN attempts :
             /\ attempts[a].pc = "fetching"
             /\ attempts'[a].pc = "json"
             /\ ResponseOk(attempts'[a].response)
             /\ attempts'[a].resets = 1 ]_vars

\* An attempt failed with a 404, another with a transport failure, and the
\* fields still hold what they held when it was sent.
C7_Witness ==
  /\ \E a \in DOMAIN attempts : attempts[a].pc = "done" /\ attempts[a].response = 404
  /\ \E a \in DOMAIN attempts : attempts[a].pc = "done" /\ attempts[a].response = -1
  /\ \A f \in Fields : value[f] # <<>> /\ ValidNow(f)

\* C8: an error message in the status region is visible: nothing hides it
\* before the next attempt writes the region again.
C8_ErrorStaysVisible ==
  statusDiv.type = "error" => statusDiv.show

\* C9: an attempt has shown no more than one status message, and exactly one
\* once it is over.
C9_OneStatusPerAttempt ==
  \A a \in DOMAIN attempts :
    /\ Len(attempts[a].messages) <= 1
    /\ Settled(attempts[a]) => Len(attempts[a].messages) = 1

\* C10: an attempt that passed the configuration guard and validation has
\* called fetch exactly once, also after its request settled, whatever the
\* outcome; an attempt that did not pass has called it never.
C10_ExactlyOneRequest ==
  \A a \in DOMAIN attempts :
    LET t == attempts[a]
    IN /\ InChain(t) <=> (t.validated /\ \A f \in Fields : t.valid[f])
       /\ InChain(t) => t.fetches = 1
       /\ t.pc = "returned" => t.fetches = 0

\* One attempt is done after a 500, another after a transport failure, each
\* with its one request.
C10_Witness ==
  /\ \E a \in DOMAIN attempts :
       attempts[a].pc = "done" /\ attempts[a].response = 500 /\ attempts[a].fetches = 1
  /\ \E a \in DOMAIN attempts :
       attempts[a].pc = "done" /\ attempts[a].response = -1 /\ attempts[a].fetches = 1

\* The status messages that name the e-mail address.
NamesEmailAddress(message) == message = FailedToSendMsg
TransportFailed(t) == t.pc = "done" /\ t.response = -1

\* C11 as stated: every attempt that ended in a transport failure showed a
\* status message that names the e-mail address.
C11_TransportFailureNamesEmail ==
  \A a \in DOMAIN attempts :
    TransportFailed(attempts[a]) =>
      /\ attempts[a].messages # <<>>
      /\ NamesEmailAddress(attempts[a].messages[Len(attempts[a].messages)])

\* C11 as amended: an attempt that ended in a transport failure showed the
\* message naming the e-mail address unless the rejection's text is 'Failed
\* to fetch'; then it showed the network-error message, which names none.
C11_TransportFailureMessage ==
  \A a \in DOMAIN attempts :
    TransportFailed(attempts[a]) =>
      attempts[a].messages =
        << IF attempts[a].error = "Failed to fetch"
           THEN NetworkErrorMsg ELSE FailedToSendMsg >>

\* Both kinds of transport failure have happened.
C11_Witness ==
  /\ \E a \in DOMAIN attempts :
       TransportFailed(attempts[a]) /\ attempts[a].messages = <<NetworkErrorMsg>>
  /\ \E a \in DOMAIN attempts :
       TransportFailed(attempts[a]) /\ attempts[a].messages = <<FailedToSendMsg>>

\* The length of a value without the whitespace at its ends.
InkAt(v) == {i \in 1..Len(v) : ~IsSpace(v[i])}
TrimmedLen(v) ==
  IF InkAt(v) = {} THEN 0
  ELSE (CHOOSE i \in InkAt(v) : \A j \in InkAt(v) : j <= i)
       - (CHOOSE i \in InkAt(v) : \A j \in InkAt(v) : i <= j) + 1

\* Every validateField call made so far on field f (by a submit event)
\* returned isValid = b.
Returned(f, b) ==
  \A a \in DOMAIN attempts : attempts[a].validated => attempts[a].valid[f] = b

\* Field f shows no error, or shows message m with the error mark.
ShowsNothingOr(f, m) ==
  \/ ~fieldError[f] /\ errorText[f] = ""
  \/ fieldError[f] /\ errorText[f] = m

\* C12 as stated: a name of trimmed length below 2 is returned invalid, and
\* the error shown for it is the length message.
C12_ShortNameLengthMessage ==
  TrimmedLen(value["name"]) < 2 =>
    /\ Returned("name", FALSE)
    /\ ShowsNothingOr("name", NameTooShortMsg)

\* C12 as amended: a name of trimmed length below 2 is returned invalid; the
\* error shown is the length message for trimmed length 1 and 'Name is
\* required' for trimmed length 0.
C12_ShortNameInvalid ==
  TrimmedLen(value["name"]) < 2 =>
    /\ Returned("name", FALSE)
    /\ ShowsNothingOr("name", IF TrimmedLen(value["name"]) = 0
                              THEN NameRequiredMsg ELSE NameTooShortMsg)

\* A name of one character between blanks was validated by a submit event
\* and shows the length message.
C12_Witness ==
  /\ Len(value["name"]) = 3 /\ TrimmedLen(value["name"]) = 1
  /\ attempts # <<>> /\ ~attempts[1].valid["name"]
  /\ fieldError["name"] /\ errorText["name"] = NameTooShortMsg

\* C13: a message of trimmed length below 10 is returned invalid and one of
\* trimmed length 10 or more is returned valid; the error mark is on the
\* field only in the first case.
C13_MessageLengthBoundary ==
  LET n == TrimmedLen(value["message"])
  IN /\ n < 10 => Returned("message", FALSE)
     /\ n >= 10 => (Returned("message", TRUE) /\ ~fieldError["message"])
     /\ fieldError["message"] => n < 10

\* A message of exactly 10 characters after trimming, typed with a blank
\* more, was validated by a submit event and returned valid.
C13_Witness ==
  /\ Len(value["message"]) = 11 /\ TrimmedLen(value["message"]) = 10
  /\ attempts # <<>> /\ attempts[1].validated /\ attempts[1].valid["message"]

\* The rules of the name, in order, on a value as typed (the blanks trimmed
\* off are whitespace, which rule 3 allows): "" when none fails.
NameAllowedOnly(v) ==
  \A i \in 1..Len(v) :
    v[i] \in Lower \cup Upper \cup {" ", "\t", "\n", "\r", "'", "-"}

FirstFailingNameRule(v) ==
  IF TrimmedLen(v) = 0 THEN NameRequiredMsg
  ELSE IF TrimmedLen(v) < 2 THEN NameTooShortMsg
  ELSE IF ~NameAllowedOnly(v) THEN NameCharsMsg
  ELSE ""

\* C14: the name is returned valid iff none of its three rules fails, and an
\* error shown for it is the message of the first rule that fails; for the
\* e-mail and the message, an empty value shows the 'required' message of
\* rule 1.
C14_FirstFailingRule ==
  LET m == FirstFailingNameRule(value["name"])
  IN /\ Returned("name", m = "")
     /\ ShowsNothingOr("name", m)
     /\ fieldError["name"] => m # ""
     /\ TrimmedLen(value["email"]) = 0 =>
          (Returned("email", FALSE) /\ ShowsNothingOr("email", EmailRequiredMsg))
     /\ TrimmedLen(value["message"]) = 0 =>
          (Returned("message", FALSE) /\ ShowsNothingOr("message", MessageRequiredMsg))

\* A name that fails rule 2 and would fail rule 3 was validated by a submit
\* event and shows the message of rule 2.
C14_Witness ==
  /\ value["name"] = <<" ", "1">>
  /\ attempts # <<>> /\ ~attempts[1].valid["name"]
  /\ fieldError["name"] /\ errorText["name"] = NameTooShortMsg

\* C15: an element is hidden exactly as long as it is observed; an
\* intersection report makes every element it reports as intersecting
\* visible and unobserved; and no step of any kind hides a visible element.
C15_RevealOneShot ==
  /\ [](\A e \in Elements :
          /\ e \in observed <=> revealStyle[e] = HiddenStyle
          /\ e \notin observed <=> revealStyle[e] = VisibleStyle)
  /\ [][ /\ \A e \in Elements :
              revealStyle[e] = VisibleStyle =>
                (revealStyle'[e] = VisibleStyle /\ e \notin observed')
         /\ \A entries \in EntrySets :
              Intersect(entries) =>
                \A e \in DOMAIN entries :
                  entries[e] => (revealStyle'[e] = VisibleStyle /\ e \notin observed')
       ]_vars

\* One element has been revealed and the page has been scrolled since, while
\* another element is still hidden and observed.
C15_Witness ==
  /\ revealStyle[1] = VisibleStyle /\ 1 \notin observed
  /\ revealStyle[2] = HiddenStyle /\ 2 \in observed
  /\ pageYOffset # 0

\* The sections whose top edge minus 200 is at or above the offset y.
Passed(y) == {i \in Sections : y >= sectionTop[i] - 200}
LastOf(S) == CHOOSE i \in S : \A j \in S : j <= i

\* C16: after every scroll event for which some section has passed, the
\* accent color is on the nav link of the last such section in document
\* order, and on no other link.
C16_LastPassedSectionHighlighted ==
  [][ (pageYOffset' # pageYOffset /\ Passed(pageYOffset') # {}) =>
        \A l \in NavLinks :
          navColor'[l] = "var(--accent)" <=> l = LastOf(Passed(pageYOffset')) ]_vars

\* Both sections have passed although the later one lies higher on the page
\* than the earlier one, and the later one is highlighted.
C16_Witness ==
  /\ sectionTop[2] < sectionTop[1]
  /\ pageYOffset = sectionTop[1] - 200
  /\ Passed(pageYOffset) = {1, 2}
  /\ navColor[2] = "var(--accent)" /\ navColor[1] = "inherit"

\* C17: whenever no attempt has a request pending (none is between its fetch
\* and its .finally), the submit button is enabled and carries the label it
\* had before any submission.
C17_IdleButtonRestored ==
  (\A a \in DOMAIN attempts : attempts[a].pc \notin {"fetching", "json"}) =>
    submitBtn = [disabled |-> FALSE, textContent |-> InitialLabel]

\* C18: a field carries the error mark iff its error element holds a
\* message.
C18_MarkIffMessage ==
  \A f \in Fields : fieldError[f] <=> errorText[f] # ""

\* A submit event marked the name and the e-mail, and a focus event then
\* cleared the e-mail, which is still invalid.
C18_Witness ==
  /\ attempts # <<>> /\ attempts[1].validated
  /\ ~attempts[1].valid["name"] /\ ~attempts[1].valid["email"]
  /\ fieldError["name"] /\ errorText["name"] = NameTooShortMsg
  /\ ~ValidNow("email") /\ ~fieldError["email"] /\ errorText["email"] = ""

\* C19: a submit event with a configured endpoint leaves every field's error
\* mark and message as validateField gives them for the field's value; with
\* a placeholder endpoint it leaves them all as they were.
C19_SubmitValidatesAllFields ==
  [][ Len(attempts') = Len(attempts) + 1 =>
        IF Configured
        THEN \A f \in Fields :
               /\ fieldError'[f] = ~validateField(f, value[f]).isValid
               /\ errorText'[f] = validateField(f, value[f]).errorMsg
        ELSE UNCHANGED <<fieldError, errorText>> ]_vars

\* All three fields are invalid and each shows its own message: only a
\* submit event sets them here.
C19_Witness ==
  /\ Configured
  /\ attempts # <<>>
  /\ \A f \in Fields : fieldError[f]
  /\ errorText["name"] = NameTooShortMsg
  /\ errorText["email"] = EmailInvalidMsg
  /\ errorText["message"] = MessageRequiredMsg

=============================================================================
